---- MODULE Spec2Model ----
(***************************************************************************)
(* Model of src/wrappers.c (tvheadend): the descriptor wrappers that run   *)
(* under fork_lock, the deadline-bounded tvh_write, and the monotonic      *)
(* sleep helpers.  Each group of functions has its own specification over  *)
(* its own variables:                                                      *)
(*   SpecFd     tvh_open / tvh_socket / tvh_pipe / tvh_fopen and a forker  *)
(*   SpecWrite  tvh_write                                                  *)
(*   SpecSleep  tvh_usleep / tvh_usleep_abs / tvh_safe_usleep              *)
(*   SpecMutex  tvh_mutex_timedlock                                        *)
(*   SpecThread tvhthread_create / thread_wrapper                          *)
(*   SpecCond   tvh_cond_init / _signal / _wait / _timedwait               *)
(*   SpecSort   tvh_qsort_r and the qsort_r fallback                       *)
(*   SpecPipe   the descriptor wrappers with tvh_pipe_close                *)
(***************************************************************************)
EXTENDS Integers, Sequences, FiniteSets, TLC

\* ------------------------------------------------------------------------
\* Bounds of the model
\* ------------------------------------------------------------------------
\* number of threads that call the descriptor wrappers
NumCallers == 2
\* wrapper calls made in all
MaxCalls == 2
\* forks the forking thread makes
MaxForks == 1
\* size of the process's descriptor table (creation fails when it is full)
MaxFds == 2

Callers == 1..NumCallers
\* the thread that forks (spawn code, outside wrappers.c)
Forker == NumCallers + 1
Ops == {"open", "socket", "pipe", "fopen"}
\* the flags argument of tvh_pipe (0 or O_NONBLOCK)
PipeFlags == {{}, {"O_NONBLOCK"}}

VARIABLES
  fork_lock,   \* holder of fork_lock: 0 when free, else the thread's id
  open_fds,    \* descriptors open in the process
  fdflags,     \* fd -> descriptor flags (F_GETFD / F_SETFD)
  flflags,     \* fd -> file status flags (F_GETFL / F_SETFL)
  pc,          \* caller -> position in the wrapper it is running
  op,          \* caller -> wrapper being run
  fd,          \* caller -> the local fd / fd[2] of the wrapper (-1: unset)
  err,         \* caller -> result of the underlying creation call
  ret,         \* caller -> value the wrapper returned
  pflags,      \* caller -> flags argument of tvh_pipe
  p,           \* caller -> its th_pipe_t <<rd, wr>>
  calls,       \* wrapper calls started
  touched,     \* caller -> descriptors whose flags the current call set
  fpc,         \* position of the forking thread
  forks,       \* forks made
  inherited    \* descriptors a child got at fork without close-on-exec

fdVars == <<fork_lock, open_fds, fdflags, flflags, pc, op, fd, err, ret,
            pflags, p, calls, touched, fpc, forks, inherited>>

VARIABLES
  now,         \* the monotonic clock mclk(), in microseconds
  w_pc,        \* position in tvh_write
  w_data,      \* the len bytes at buf when tvh_write is called
  w_len,       \* len: bytes still to write
  w_buf,       \* buf: offset of the next byte to write
  w_limit,     \* limit
  w_t0,        \* clock read on entry
  w_ret,       \* value tvh_write returned
  dest,        \* bytes the destination accepted, in order
  outs,        \* results of the write calls so far: c, or -errno when c < 0
  w_tattempt,  \* clock when the last write call was made
  w_tcheck,    \* clock read by the last deadline check
  w_checks,    \* deadline checks made
  w_sleeps     \* arguments of the tvh_safe_usleep calls made

wrVars == <<now, w_pc, w_data, w_len, w_buf, w_limit, w_t0, w_ret, dest, outs,
            w_tattempt, w_tcheck, w_checks, w_sleeps>>

VARIABLES
  nowNs,       \* the monotonic clock, in nanoseconds
  s_pc,        \* position in the sleep function being run
  s_fn,        \* function called: "usleep", "usleep_abs" or "safe_usleep"
  s_arg,       \* its argument us
  s_t0,        \* clock when it was called
  su_us,       \* tvh_safe_usleep: us
  u_us,        \* tvh_usleep / tvh_usleep_abs: us
  ts,          \* tvh_usleep / tvh_usleep_abs: struct timespec ts
  u_r,         \* tvh_usleep / tvh_usleep_abs: r, result of clock_nanosleep
  u_ret,       \* value tvh_usleep / tvh_usleep_abs returned
  s_calls,     \* clock_nanosleep calls made
  s_intr,      \* of those, calls a signal interrupted
  s_remNs,     \* unslept time when the last call was interrupted
  s_hard       \* whether a call failed with an error other than EINTR

slVars == <<nowNs, s_pc, s_fn, s_arg, s_t0, su_us, u_us, ts, u_r, u_ret,
            s_calls, s_intr, s_remNs, s_hard>>

\* The state of each of the remaining groups of functions is one record;
\* its fields are listed where its initial value is defined.
VARIABLES
  mx,          \* tvh_mutex_timedlock (MutexOff)
  th,          \* tvhthread_create and thread_wrapper (ThreadOff)
  cv,          \* the condition variable functions (CondOff)
  qs,          \* tvh_qsort_r and qsort_r (SortOff)
  cl           \* tvh_pipe_close (CloseOff)

restVars == <<mx, th, cv, qs, cl>>

\* what the steps of one group of functions leave alone
mxRest == <<fdVars, wrVars, slVars, th, cv, qs, cl>>
thRest == <<fdVars, wrVars, slVars, mx, cv, qs, cl>>
cvRest == <<fdVars, wrVars, slVars, mx, th, qs, cl>>
qsRest == <<fdVars, wrVars, slVars, mx, th, cv, cl>>
clRest == <<wrVars, slVars, mx, th, cv, qs>>

vars == <<fdVars, wrVars, slVars, restVars>>

\* ------------------------------------------------------------------------
\* Descriptor table
\* ------------------------------------------------------------------------
FdSpace == 1..MaxFds
FreeFds == FdSpace \ open_fds

\* the kernel hands out the lowest unused descriptor
LowestFree(S) == CHOOSE x \in S : \A y \in S : x <= y

\* fcntl(fd, F_SETFD, fcntl(fd, F_GETFD) | FD_CLOEXEC)
SetCloexecSkip(flags, f) == flags
SetCloexec(flags, f) == [flags EXCEPT ![f] = @ \cup {"FD_CLOEXEC"}]

\* fcntl(fd, F_SETFL, fcntl(fd, F_GETFL) | flags)
SetFl(flags, f, add) == [flags EXCEPT ![f] = @ \cup add]

InitFd ==
  /\ fork_lock = 0
  /\ open_fds = {}
  /\ fdflags = [f \in FdSpace |-> {}]
  /\ flflags = [f \in FdSpace |-> {}]
  /\ pc = [t \in Callers |-> "idle"]
  /\ op = [t \in Callers |-> "open"]
  /\ fd = [t \in Callers |-> <<-1, -1>>]
  /\ err = [t \in Callers |-> 0]
  /\ ret = [t \in Callers |-> 0]
  /\ pflags = [t \in Callers |-> {}]
  /\ p = [t \in Callers |-> <<-1, -1>>]
  /\ calls = 0
  /\ touched = [t \in Callers |-> {}]
  /\ fpc = "idle"
  /\ forks = 0
  /\ inherited = {}

\* ------------------------------------------------------------------------
\* tvh_open / tvh_socket / tvh_pipe / tvh_fopen
\* ------------------------------------------------------------------------
\* a thread enters one of the wrappers
Call(t) ==
  /\ pc[t] = "idle"
  /\ calls < MaxCalls
  /\ \E o \in Ops, fl \in PipeFlags :
       /\ op' = [op EXCEPT ![t] = o]
       /\ pflags' = [pflags EXCEPT ![t] = IF o = "pipe" THEN fl ELSE {}]
  /\ pc' = [pc EXCEPT ![t] = "lock"]
  /\ calls' = calls + 1
  /\ fd' = [fd EXCEPT ![t] = <<-1, -1>>]
  /\ touched' = [touched EXCEPT ![t] = {}]
  /\ UNCHANGED <<fork_lock, open_fds, fdflags, flflags, err, ret, p, fpc,
                 forks, inherited>>
  /\ UNCHANGED <<wrVars, slVars, restVars>>

\* pthread_mutex_lock(&fork_lock)
Lock(t) ==
  /\ pc[t] = "lock"
  /\ fork_lock = 0
  /\ fork_lock' = t
  /\ pc' = [pc EXCEPT ![t] = "create"]
  /\ UNCHANGED <<open_fds, fdflags, flflags, op, fd, err, ret, pflags, p,
                 calls, touched, fpc, forks, inherited>>
  /\ UNCHANGED <<wrVars, slVars, restVars>>

\* descriptors the creation call needs
Needed(o) == IF o = "pipe" THEN 2 ELSE 1

\* open() / socket() / pipe() / fopen() succeeds: new descriptors, no flags
CreateOk(t) ==
  /\ pc[t] = "create"
  /\ Cardinality(FreeFds) >= Needed(op[t])
  /\ LET f0 == LowestFree(FreeFds)
         f1 == IF op[t] = "pipe" THEN LowestFree(FreeFds \ {f0}) ELSE -1
         new == IF op[t] = "pipe" THEN {f0, f1} ELSE {f0}
     IN /\ open_fds' = open_fds \cup new
        /\ fdflags' = [f \in FdSpace |-> IF f \in new THEN {} ELSE fdflags[f]]
        /\ flflags' = [f \in FdSpace |-> IF f \in new THEN {} ELSE flflags[f]]
        /\ fd' = [fd EXCEPT ![t] = <<f0, f1>>]
        /\ err' = [err EXCEPT ![t] = 0]
  /\ pc' = [pc EXCEPT ![t] = "cloexec0"]
  /\ UNCHANGED <<fork_lock, op, ret, pflags, p, calls, touched, fpc, forks,
                 inherited>>
  /\ UNCHANGED <<wrVars, slVars, restVars>>

\* the creation call fails (any OS error; always when the table is full)
CreateFail(t) ==
  /\ pc[t] = "create"
  /\ err' = [err EXCEPT ![t] = -1]
  /\ pc' = [pc EXCEPT ![t] = "unlock"]
  /\ UNCHANGED <<fork_lock, open_fds, fdflags, flflags, op, fd, ret, pflags,
                 p, calls, touched, fpc, forks, inherited>>
  /\ UNCHANGED <<wrVars, slVars, restVars>>

\* position after close-on-exec is set on the first descriptor
AfterCloexec0(o) == IF o = "pipe" THEN "cloexec1" ELSE "unlock"

\* close-on-exec on fd (open, socket, fopen's fileno) or on fd[0] (pipe)
Cloexec0(t) ==
  /\ pc[t] = "cloexec0"
  /\ fdflags' = SetCloexec(fdflags, fd[t][1])
  /\ touched' = [touched EXCEPT ![t] = @ \cup {fd[t][1]}]
  /\ pc' = [pc EXCEPT ![t] = AfterCloexec0(op[t])]
  /\ UNCHANGED <<fork_lock, open_fds, flflags, op, fd, err, ret, pflags, p,
                 calls, fpc, forks, inherited>>
  /\ UNCHANGED <<wrVars, slVars, restVars>>

\* close-on-exec on fd[1] (pipe)
Cloexec1(t) ==
  /\ pc[t] = "cloexec1"
  /\ fdflags' = SetCloexec(fdflags, fd[t][2])
  /\ touched' = [touched EXCEPT ![t] = @ \cup {fd[t][2]}]
  /\ pc' = [pc EXCEPT ![t] = "setfl0"]
  /\ UNCHANGED <<fork_lock, open_fds, flflags, op, fd, err, ret, pflags, p,
                 calls, fpc, forks, inherited>>
  /\ UNCHANGED <<wrVars, slVars, restVars>>

\* the caller's flags on fd[0], then on fd[1] (pipe)
SetFl0(t) ==
  /\ pc[t] = "setfl0"
  /\ flflags' = SetFl(flflags, fd[t][1], pflags[t])
  /\ touched' = [touched EXCEPT ![t] = @ \cup {fd[t][1]}]
  /\ pc' = [pc EXCEPT ![t] = "setfl1"]
  /\ UNCHANGED <<fork_lock, open_fds, fdflags, op, fd, err, ret, pflags, p,
                 calls, fpc, forks, inherited>>
  /\ UNCHANGED <<wrVars, slVars, restVars>>

SetFl1(t) ==
  /\ pc[t] = "setfl1"
  /\ flflags' = SetFl(flflags, fd[t][2], pflags[t])
  /\ touched' = [touched EXCEPT ![t] = @ \cup {fd[t][2]}]
  /\ pc' = [pc EXCEPT ![t] = "assign"]
  /\ UNCHANGED <<fork_lock, open_fds, fdflags, op, fd, err, ret, pflags, p,
                 calls, fpc, forks, inherited>>
  /\ UNCHANGED <<wrVars, slVars, restVars>>

\* p->rd = fd[0]; p->wr = fd[1]
Assign(t) ==
  /\ pc[t] = "assign"
  /\ p' = [p EXCEPT ![t] = <<fd[t][1], fd[t][2]>>]
  /\ pc' = [pc EXCEPT ![t] = "unlock"]
  /\ UNCHANGED <<fork_lock, open_fds, fdflags, flflags, op, fd, err, ret,
                 pflags, calls, touched, fpc, forks, inherited>>
  /\ UNCHANGED <<wrVars, slVars, restVars>>

\* the holder of fork_lock after pthread_mutex_unlock
UnlockedLeak(t, failed) == IF failed THEN t ELSE 0
Unlocked(t, failed) == 0

\* what the wrapper returns: fd (-1 on failure), err for tvh_pipe, and the
\* stream for tvh_fopen (its descriptor stands for the FILE, 0 for NULL)
RetVal(o, e, f) ==
  CASE o = "pipe" -> e
    [] o = "fopen" -> IF e = -1 THEN 0 ELSE f[1]
    [] OTHER -> IF e = -1 THEN -1 ELSE f[1]

\* pthread_mutex_unlock(&fork_lock); return
Unlock(t) ==
  /\ pc[t] = "unlock"
  /\ fork_lock' = Unlocked(t, err[t] = -1)
  /\ ret' = [ret EXCEPT ![t] = RetVal(op[t], err[t], fd[t])]
  /\ pc' = [pc EXCEPT ![t] = "ret"]
  /\ UNCHANGED <<open_fds, fdflags, flflags, op, fd, err, pflags, p, calls,
                 touched, fpc, forks, inherited>>
  /\ UNCHANGED <<wrVars, slVars, restVars>>

\* the caller goes on and may call again; the wrapper's locals are gone
Return(t) ==
  /\ pc[t] = "ret"
  /\ pc' = [pc EXCEPT ![t] = "idle"]
  /\ op' = [op EXCEPT ![t] = "open"]
  /\ pflags' = [pflags EXCEPT ![t] = {}]
  /\ fd' = [fd EXCEPT ![t] = <<-1, -1>>]
  /\ err' = [err EXCEPT ![t] = 0]
  /\ ret' = [ret EXCEPT ![t] = 0]
  /\ touched' = [touched EXCEPT ![t] = {}]
  /\ UNCHANGED <<fork_lock, open_fds, fdflags, flflags, p, calls, fpc, forks,
                 inherited>>
  /\ UNCHANGED <<wrVars, slVars, restVars>>

\* ------------------------------------------------------------------------
\* The forking thread: lock fork_lock, fork, unlock
\* ------------------------------------------------------------------------
ForkLock ==
  /\ fpc = "idle"
  /\ forks < MaxForks
  /\ fork_lock = 0
  /\ fork_lock' = Forker
  /\ fpc' = "fork"
  /\ UNCHANGED <<open_fds, fdflags, flflags, pc, op, fd, err, ret, pflags, p,
                 calls, touched, forks, inherited>>
  /\ UNCHANGED <<wrVars, slVars, restVars>>

\* the child gets a copy of every open descriptor; those without
\* close-on-exec survive its exec
Fork ==
  /\ fpc = "fork"
  /\ inherited' = inherited \cup
                    {f \in open_fds : "FD_CLOEXEC" \notin fdflags[f]}
  /\ forks' = forks + 1
  /\ fpc' = "unlock"
  /\ UNCHANGED <<fork_lock, open_fds, fdflags, flflags, pc, op, fd, err, ret,
                 pflags, p, calls, touched>>
  /\ UNCHANGED <<wrVars, slVars, restVars>>

ForkUnlock ==
  /\ fpc = "unlock"
  /\ fork_lock' = 0
  /\ fpc' = "idle"
  /\ UNCHANGED <<open_fds, fdflags, flflags, pc, op, fd, err, ret, pflags, p,
                 calls, touched, forks, inherited>>
  /\ UNCHANGED <<wrVars, slVars, restVars>>

CallerStep(t) ==
  \/ Call(t)
  \/ Lock(t)
  \/ CreateOk(t)
  \/ CreateFail(t)
  \/ Cloexec0(t)
  \/ Cloexec1(t)
  \/ SetFl0(t)
  \/ SetFl1(t)
  \/ Assign(t)
  \/ Unlock(t)
  \/ Return(t)

ForkerStep ==
  \/ ForkLock
  \/ Fork
  \/ ForkUnlock

NextFd ==
  \/ \E t \in Callers : CallerStep(t)
  \/ ForkerStep

\* ------------------------------------------------------------------------
\* errno values and ERRNO_AGAIN
\* ------------------------------------------------------------------------
EINTR == 4
EAGAIN == 11
EINVAL == 22
EPIPE == 32

\* ERRNO_AGAIN(e): the resource-temporarily-unavailable class
ERRNO_AGAIN(e) == e = EAGAIN \/ e = EINTR

\* ------------------------------------------------------------------------
\* tvh_write
\* ------------------------------------------------------------------------
\* longest buffer written
MaxLen == 3
\* write calls one tvh_write makes in the model
MaxAttempts == 4

\* the monotonic clock counts microseconds
MONOCLOCK_RESOLUTION == 1000000
sec2mono(s) == s * MONOCLOCK_RESOLUTION
\* limit = mclk() + sec2mono(25)
WriteTimeoutSec == 25
\* tvh_safe_usleep(100)
SleepUs == 100

\* errno of a failed write
WriteErrnos == {EAGAIN, EINTR, EPIPE}

\* time a step may take: none, a microsecond, or as long as it takes the
\* clock to reach the deadline or to pass it by one microsecond
Delays(n, lim) == {0, 1} \cup {d \in {lim - n, lim - n + 1} : d > 0}

\* bytes 1..n of the caller's buffer, all different
Buffer(n) == [i \in 1..n |-> i]

WriteIdle ==
  /\ now = 0
  /\ w_pc = "off"
  /\ w_data = <<>>
  /\ w_len = 0
  /\ w_buf = 0
  /\ w_limit = 0
  /\ w_t0 = 0
  /\ w_ret = 0
  /\ dest = <<>>
  /\ outs = <<>>
  /\ w_tattempt = 0
  /\ w_tcheck = 0
  /\ w_checks = 0
  /\ w_sleeps = <<>>

\* tvh_write(fd, buf, len) is called, with the clock at any value
InitWrite ==
  /\ now \in {0, 7}
  /\ w_pc = "entry"
  /\ \E n \in 0..MaxLen : w_data = Buffer(n) /\ w_len = n
  /\ w_buf = 0
  /\ w_limit = 0
  /\ w_t0 = 0
  /\ w_ret = 0
  /\ dest = <<>>
  /\ outs = <<>>
  /\ w_tattempt = 0
  /\ w_tcheck = 0
  /\ w_checks = 0
  /\ w_sleeps = <<>>

\* while (len): the position at the top of the loop
LoopTop(len) == IF len # 0 THEN "write" ELSE "return"

\* int64_t limit = mclk() + sec2mono(25)
WEntry ==
  /\ w_pc = "entry"
  /\ w_limit' = now + sec2mono(WriteTimeoutSec)
  /\ w_t0' = now
  /\ w_pc' = LoopTop(w_len)
  /\ UNCHANGED <<now, w_data, w_len, w_buf, w_ret, dest, outs, w_tattempt,
                 w_tcheck, w_checks, w_sleeps>>
  /\ UNCHANGED <<fdVars, slVars, restVars>>

\* len -= c
LenAfter(len, c) == len - c
\* buf += c
BufAfterStuck(buf, c) == buf
BufAfter(buf, c) == buf + c

\* c = write(fd, buf, len) accepts c bytes, 0 <= c <= len
WWriteOk ==
  /\ w_pc = "write"
  /\ Len(outs) < MaxAttempts
  /\ \E c \in 0..w_len, d \in Delays(now, w_limit) :
       /\ now' = now + d
       /\ dest' = dest \o SubSeq(w_data, w_buf + 1, w_buf + c)
       /\ outs' = Append(outs, c)
       /\ w_len' = LenAfter(w_len, c)
       /\ w_buf' = BufAfter(w_buf, c)
       /\ w_pc' = LoopTop(w_len')
  /\ w_tattempt' = now
  /\ UNCHANGED <<w_data, w_limit, w_t0, w_ret, w_tcheck, w_checks, w_sleeps>>
  /\ UNCHANGED <<fdVars, slVars, restVars>>

\* position after write failed with errno e
AfterErrorRetryAll(e) == "check"
AfterError(e) == IF ERRNO_AGAIN(e) THEN "check" ELSE "return"

\* c = write(fd, buf, len) fails: c < 0 and errno is set
WWriteErr ==
  /\ w_pc = "write"
  /\ Len(outs) < MaxAttempts
  /\ \E e \in WriteErrnos, d \in Delays(now, w_limit) :
       /\ now' = now + d
       /\ outs' = Append(outs, -e)
       /\ w_pc' = AfterError(e)
  /\ w_tattempt' = now
  /\ UNCHANGED <<w_data, w_len, w_buf, w_limit, w_t0, w_ret, dest, w_tcheck,
                 w_checks, w_sleeps>>
  /\ UNCHANGED <<fdVars, slVars, restVars>>

\* if (mclk() > limit) break
ExpiredEarly(t, lim) == t >= lim
Expired(t, lim) == t > lim

WCheck ==
  /\ w_pc = "check"
  /\ w_tcheck' = now
  /\ w_checks' = w_checks + 1
  /\ w_pc' = IF Expired(now, w_limit) THEN "return" ELSE "sleep"
  /\ UNCHANGED <<now, w_data, w_len, w_buf, w_limit, w_t0, w_ret, dest, outs,
                 w_tattempt, w_sleeps>>
  /\ UNCHANGED <<fdVars, slVars, restVars>>

\* tvh_safe_usleep(100); continue
WSleep ==
  /\ w_pc = "sleep"
  /\ w_sleeps' = Append(w_sleeps, SleepUs)
  /\ \E d \in Delays(now + SleepUs, w_limit) : now' = now + SleepUs + d
  /\ w_pc' = LoopTop(w_len)
  /\ UNCHANGED <<w_data, w_len, w_buf, w_limit, w_t0, w_ret, dest, outs,
                 w_tattempt, w_tcheck, w_checks>>
  /\ UNCHANGED <<fdVars, slVars, restVars>>

\* return len ? 1 : 0
WriteResultCount(len) == len
WriteResult(len) == IF len # 0 THEN 1 ELSE 0

WReturn ==
  /\ w_pc = "return"
  /\ w_ret' = WriteResult(w_len)
  /\ w_pc' = "done"
  /\ UNCHANGED <<now, w_data, w_len, w_buf, w_limit, w_t0, dest, outs, w_tattempt,
                 w_tcheck, w_checks, w_sleeps>>
  /\ UNCHANGED <<fdVars, slVars, restVars>>

NextWrite ==
  \/ WEntry
  \/ WWriteOk
  \/ WWriteErr
  \/ WCheck
  \/ WSleep
  \/ WReturn

\* ------------------------------------------------------------------------
\* tvh_usleep, tvh_usleep_abs, tvh_safe_usleep
\* ------------------------------------------------------------------------
\* largest small argument us (microseconds)
MaxUs == 2
\* interruptions of clock_nanosleep during one call
MaxInterrupts == 3

\* us / 1000000LL, (us % 1000000LL) * 1000LL, (ts.tv_nsec + 500LL) / 1000LL
UsPerSec == 1000000
NsPerUs == 1000
RoundNs == 500
NsPerSec == UsPerSec * NsPerUs

SleepFns == {"usleep", "usleep_abs", "safe_usleep"}
\* arguments: negative, zero, a few microseconds, around one second
UsInputs == (-1..MaxUs) \cup {UsPerSec, UsPerSec + 1}

\* ts.tv_sec = us / 1000000LL; ts.tv_nsec = (us % 1000000LL) * 1000LL
ToTimespec(us) ==
  [tv_sec |-> us \div UsPerSec, tv_nsec |-> (us % UsPerSec) * NsPerUs]

\* a timespec in nanoseconds, and a duration in nanoseconds as a timespec
TsNs(t) == t.tv_sec * NsPerSec + t.tv_nsec
NsTs(n) == [tv_sec |-> n \div NsPerSec, tv_nsec |-> n % NsPerSec]

\* val = (ts.tv_sec * 1000000LL) + ((ts.tv_nsec + 500LL) / 1000LL)
Val(t) == t.tv_sec * UsPerSec + ((t.tv_nsec + RoundNs) \div NsPerUs)

\* if (ERRNO_AGAIN(r)) return val; return r ? -r : 0
UsleepResult(r, t) ==
  IF ERRNO_AGAIN(r) THEN Val(t) ELSE IF r # 0 THEN -r ELSE 0

SleepIdle ==
  /\ nowNs = 0
  /\ s_pc = "off"
  /\ s_fn = "usleep"
  /\ s_arg = 0
  /\ s_t0 = 0
  /\ su_us = 0
  /\ u_us = 0
  /\ ts = [tv_sec |-> 0, tv_nsec |-> 0]
  /\ u_r = 0
  /\ u_ret = 0
  /\ s_calls = 0
  /\ s_intr = 0
  /\ s_remNs = 0
  /\ s_hard = FALSE

\* one of the three functions is called with argument us
InitSleep ==
  /\ nowNs \in {0, 1500}
  /\ s_fn \in SleepFns
  /\ s_arg \in UsInputs
  /\ s_t0 = nowNs
  /\ s_pc = IF s_fn = "safe_usleep" THEN "su_entry" ELSE "u_entry"
  /\ su_us = IF s_fn = "safe_usleep" THEN s_arg ELSE 0
  /\ u_us = IF s_fn = "safe_usleep" THEN 0 ELSE s_arg
  /\ ts = [tv_sec |-> 0, tv_nsec |-> 0]
  /\ u_r = 0
  /\ u_ret = 0
  /\ s_calls = 0
  /\ s_intr = 0
  /\ s_remNs = 0
  /\ s_hard = FALSE

\* tvh_safe_usleep: if (us <= 0) return; do { r = tvh_usleep(us); ...
SuEntry ==
  /\ s_pc = "su_entry"
  /\ IF su_us <= 0
       THEN s_pc' = "done" /\ u_us' = u_us
       ELSE s_pc' = "u_entry" /\ u_us' = su_us
  /\ UNCHANGED <<nowNs, s_fn, s_arg, s_t0, su_us, ts, u_r, u_ret, s_calls,
                 s_intr, s_remNs, s_hard>>
  /\ UNCHANGED <<fdVars, wrVars, restVars>>

\* tvh_usleep / tvh_usleep_abs: if (us <= 0) return 0; fill ts
UEntry ==
  /\ s_pc = "u_entry"
  /\ IF u_us <= 0
       THEN s_pc' = "u_done" /\ u_ret' = 0 /\ ts' = ts
       ELSE s_pc' = "u_sleep" /\ u_ret' = u_ret /\ ts' = ToTimespec(u_us)
  /\ UNCHANGED <<nowNs, s_fn, s_arg, s_t0, su_us, u_us, u_r, s_calls, s_intr,
                 s_remNs, s_hard>>
  /\ UNCHANGED <<fdVars, wrVars, restVars>>

IsAbs == s_fn = "usleep_abs"

\* when the sleep requested by ts ends: ts from now (flags 0), or the
\* absolute time ts, at once if it has passed (TIMER_ABSTIME)
WakeNs == IF IsAbs
            THEN IF TsNs(ts) > nowNs THEN TsNs(ts) ELSE nowNs
            ELSE nowNs + TsNs(ts)

\* instants before the end of the sleep at which a signal may arrive
IntrTimes ==
  {t \in {nowNs, nowNs + 1, WakeNs - NsPerUs, WakeNs - RoundNs - 1,
          WakeNs - RoundNs, WakeNs - RoundNs + 1, WakeNs - 1} :
     nowNs <= t /\ t < WakeNs}

\* clock_nanosleep sleeps to the end: returns 0 and leaves the remainder
\* argument alone
UNanosleepDone ==
  /\ s_pc = "u_sleep"
  /\ \E over \in {0, 250} : nowNs' = WakeNs + over
  /\ u_r' = 0
  /\ s_calls' = s_calls + 1
  /\ s_pc' = "u_val"
  /\ UNCHANGED <<s_fn, s_arg, s_t0, su_us, u_us, ts, u_ret, s_intr, s_remNs,
                 s_hard>>
  /\ UNCHANGED <<fdVars, wrVars, restVars>>

\* the remainder argument after an interrupted sleep with n nanoseconds
\* left: written for a relative sleep, not for TIMER_ABSTIME
RemainWritten(abs, t, n) == IF abs THEN t ELSE NsTs(n)

\* a signal handler interrupts clock_nanosleep: returns EINTR
UNanosleepIntr ==
  /\ s_pc = "u_sleep"
  /\ s_intr < MaxInterrupts
  /\ \E t \in IntrTimes :
       /\ nowNs' = t
       /\ s_remNs' = WakeNs - t
       /\ ts' = RemainWritten(IsAbs, ts, WakeNs - t)
  /\ u_r' = EINTR
  /\ s_calls' = s_calls + 1
  /\ s_intr' = s_intr + 1
  /\ s_pc' = "u_val"
  /\ UNCHANGED <<s_fn, s_arg, s_t0, su_us, u_us, u_ret, s_hard>>
  /\ UNCHANGED <<fdVars, wrVars, restVars>>

\* clock_nanosleep fails with another error, without sleeping
UNanosleepErr ==
  /\ s_pc = "u_sleep"
  /\ u_r' = EINVAL
  /\ s_hard' = TRUE
  /\ s_calls' = s_calls + 1
  /\ s_pc' = "u_val"
  /\ UNCHANGED <<nowNs, s_fn, s_arg, s_t0, su_us, u_us, ts, u_ret, s_intr,
                 s_remNs>>
  /\ UNCHANGED <<fdVars, wrVars, restVars>>

\* val = ...; return
UReturn ==
  /\ s_pc = "u_val"
  /\ u_ret' = UsleepResult(u_r, ts)
  /\ s_pc' = "u_done"
  /\ UNCHANGED <<nowNs, s_fn, s_arg, s_t0, su_us, u_us, ts, u_r, s_calls,
                 s_intr, s_remNs, s_hard>>
  /\ UNCHANGED <<fdVars, wrVars, restVars>>

\* tvh_safe_usleep after r = tvh_usleep(us): r < 0 leaves the loop (continue
\* reaches the test r > 0, break leaves at once), else us = r and the loop
\* goes on while r > 0
SuNext(r) == IF r < 0 THEN "done" ELSE IF r > 0 THEN "u_entry" ELSE "done"

SuLoop ==
  /\ s_pc = "u_done"
  /\ s_fn = "safe_usleep"
  /\ su_us' = IF u_ret < 0 THEN su_us ELSE u_ret
  /\ u_us' = IF u_ret > 0 THEN u_ret ELSE u_us
  /\ s_pc' = SuNext(u_ret)
  /\ UNCHANGED <<nowNs, s_fn, s_arg, s_t0, ts, u_r, u_ret, s_calls, s_intr,
                 s_remNs, s_hard>>
  /\ UNCHANGED <<fdVars, wrVars, restVars>>

\* tvh_usleep / tvh_usleep_abs return to their caller
UDone ==
  /\ s_pc = "u_done"
  /\ s_fn # "safe_usleep"
  /\ s_pc' = "done"
  /\ UNCHANGED <<nowNs, s_fn, s_arg, s_t0, su_us, u_us, ts, u_r, u_ret,
                 s_calls, s_intr, s_remNs, s_hard>>
  /\ UNCHANGED <<fdVars, wrVars, restVars>>

NextSleep ==
  \/ SuEntry
  \/ UEntry
  \/ UNanosleepDone
  \/ UNanosleepIntr
  \/ UNanosleepErr
  \/ UReturn
  \/ SuLoop
  \/ UDone

\* ------------------------------------------------------------------------
\* tvh_mutex_timedlock
\* ------------------------------------------------------------------------
\* lock and unlock operations the other thread makes
MaxOther == 3

EBUSY == 16
ETIMEDOUT == 110
\* tvh_safe_usleep(10000)
PollUs == 10000

\* timeouts asked for: none, shorter than, equal to and longer than one
\* polling interval
UsecInputs == {0, 1, PollUs, PollUs + 1, 2 * PollUs}

\* tvh_mutex_timedlock not running
MutexOff ==
  [clock |-> 0,      \* the fast monotonic clock getfastmonoclock(), usec
   pc |-> "off",     \* position in tvh_mutex_timedlock
   usec |-> 0,       \* its argument usec
   finish |-> 0,     \* finish
   retcode |-> 0,    \* retcode
   ret |-> 0,        \* value tvh_mutex_timedlock returned
   owner |-> 0,      \* thread holding the mutex: 0 none, 1 caller, 2 other
   seen |-> <<>>,    \* results of the pthread_mutex_trylock calls so far
   held |-> <<>>,    \* the holder each of those calls found
   tpolls |-> <<>>,  \* clock at each of those calls
   tcheck |-> 0,     \* clock read by the last deadline check
   sleeps |-> <<>>,  \* arguments of the tvh_safe_usleep calls made
   t0 |-> 0,         \* clock read on entry
   tret |-> 0,       \* clock when the call returned
   other |-> 0]      \* lock and unlock operations of the other thread

MutexIdle == mx = MutexOff

\* tvh_mutex_timedlock(mutex, usec) is called on a mutex that is free or
\* held by another thread
InitMutex ==
  \E c \in {0, 7}, u \in UsecInputs, o \in {0, 2} :
    mx = [MutexOff EXCEPT !.clock = c, !.pc = "entry", !.usec = u,
                          !.owner = o]

\* int64_t finish = getfastmonoclock() + usec
MEntry ==
  /\ mx.pc = "entry"
  /\ mx' = [mx EXCEPT !.finish = mx.clock + mx.usec,
                      !.t0 = mx.clock,
                      !.pc = "try"]
  /\ UNCHANGED mxRest

\* while ((retcode = pthread_mutex_trylock(mutex)) == EBUSY)
LoopsOnAnyError(rc) == rc # 0
LoopsOn(rc) == rc = EBUSY

\* the call after pthread_mutex_trylock returned rc: the loop goes on for
\* EBUSY, any other result is returned
AfterTry(m, rc) ==
  [m EXCEPT !.retcode = rc,
            !.seen = Append(@, rc),
            !.held = Append(@, m.owner),
            !.tpolls = Append(@, m.clock),
            !.pc = IF LoopsOn(rc) THEN "check" ELSE "done",
            !.ret = IF LoopsOn(rc) THEN @ ELSE rc,
            !.tret = IF LoopsOn(rc) THEN @ ELSE m.clock]

\* pthread_mutex_trylock: 0 and the mutex is taken when it is free, EBUSY
\* when it is held
MTry ==
  /\ mx.pc = "try"
  /\ LET rc == IF mx.owner = 0 THEN 0 ELSE EBUSY
     IN mx' = [AfterTry(mx, rc) EXCEPT
                 !.owner = IF rc = 0 THEN 1 ELSE @]
  /\ UNCHANGED mxRest

\* pthread_mutex_trylock fails with another error (a mutex that is not
\* valid): the mutex is not taken
MTryError ==
  /\ mx.pc = "try"
  /\ mx' = AfterTry(mx, EINVAL)
  /\ UNCHANGED mxRest

\* if (getfastmonoclock() >= finish) return ETIMEDOUT
TimedOutEarly(t, fin) == t + PollUs >= fin
TimedOut(t, fin) == t >= fin

MCheck ==
  /\ mx.pc = "check"
  /\ mx' = IF TimedOut(mx.clock, mx.finish)
             THEN [mx EXCEPT !.tcheck = mx.clock, !.pc = "done",
                             !.ret = ETIMEDOUT, !.tret = mx.clock]
             ELSE [mx EXCEPT !.tcheck = mx.clock, !.pc = "sleep"]
  /\ UNCHANGED mxRest

\* tvh_safe_usleep(10000): the clock moves on by the time slept
MSleep ==
  /\ mx.pc = "sleep"
  /\ mx' = [mx EXCEPT !.sleeps = Append(@, PollUs),
                      !.clock = @ + PollUs,
                      !.pc = "try"]
  /\ UNCHANGED mxRest

\* the other thread locks the mutex when it is free
OtherLock ==
  /\ mx.pc \notin {"off", "done"}
  /\ mx.other < MaxOther
  /\ mx.owner = 0
  /\ mx' = [mx EXCEPT !.owner = 2, !.other = @ + 1]
  /\ UNCHANGED mxRest

\* the other thread unlocks the mutex
OtherUnlock ==
  /\ mx.pc \notin {"off", "done"}
  /\ mx.other < MaxOther
  /\ mx.owner = 2
  /\ mx' = [mx EXCEPT !.owner = 0, !.other = @ + 1]
  /\ UNCHANGED mxRest

NextMutex ==
  \/ MEntry
  \/ MTry
  \/ MTryError
  \/ MCheck
  \/ MSleep
  \/ OtherLock
  \/ OtherUnlock

\* ------------------------------------------------------------------------
\* tvhthread_create and thread_wrapper
\* ------------------------------------------------------------------------
\* longest name passed to tvhthread_create
MaxNameLen == 14

\* char name[17]
NameSize == 17
\* strncpy(ts->name, "tvh:", 4)
PrefixLen == 4
\* "tvh:" as character codes
Prefix == <<116, 118, 104, 58>>
NUL == 0
\* value of the bytes behind ts->name that do not belong to it
Canary == -1

\* the name of length n: n different letters
NameOf(n) == [i \in 1..n |-> 96 + i]
NameInputs == {NameOf(n) : n \in 0..MaxNameLen}
ArgInputs == {1, 2}

\* addresses modelled: ts->name[0..16] and the bytes behind it
MemSpace == 0..(NameSize + PrefixLen - 1)

\* calloc(1, sizeof(struct thread_state)): a zeroed thread_state
Calloc == [i \in MemSpace |-> IF i < NameSize THEN NUL ELSE Canary]

\* strncpy(dst, src, n) with dst = ts->name + off: the first n characters
\* of src, padded with NUL up to n when src is shorter; no NUL is added
\* when src has n characters or more
Strncpy(mem, off, src, n) ==
  [i \in DOMAIN mem |->
     IF off <= i /\ i < off + n
       THEN IF i - off + 1 <= Len(src) THEN src[i - off + 1] ELSE NUL
       ELSE mem[i]]

\* the C string at ts->name: the bytes before the first NUL
CStrLen(mem) ==
  IF \E i \in DOMAIN mem : mem[i] = NUL
    THEN CHOOSE i \in DOMAIN mem :
           mem[i] = NUL /\ \A j \in DOMAIN mem : j < i => mem[j] # NUL
    ELSE NameSize + PrefixLen
CStr(mem) == [k \in 1..CStrLen(mem) |-> mem[k - 1]]

\* sizeof(ts->name) - 4
CopyLenFull(size) == size
CopyLen(size) == size - PrefixLen

\* value the entry function returns for its argument
EntryResult(a) == a + 100

\* tvhthread_create not running
ThreadOff ==
  [pc |-> "off",     \* position of the creator in tvhthread_create
   name |-> <<>>,    \* its argument name, a string without its final NUL
   arg |-> 0,        \* its argument arg
   heap |-> "none",  \* the thread_state: "none", "allocated" or "freed"
   mem |-> Calloc,   \* bytes of ts->name and of the memory behind it
   run |-> "none",   \* ts->run
   tsarg |-> 0,      \* ts->arg
   r |-> 0,          \* r, the result of pthread_create
   ret |-> 0,        \* value tvhthread_create returned
   wpc |-> "none",   \* position of the new thread in thread_wrapper
   label |-> <<>>,   \* name given to the new thread
   exit |-> 0,       \* exit value of the new thread
   freed |-> <<>>,   \* who called free(ts), in order
   uaf |-> FALSE]    \* the thread_state was read or written after free

ThreadIdle == th = ThreadOff

\* tvhthread_create(thread, attr, start_routine, arg, name) is called
InitThread ==
  \E n \in NameInputs, a \in ArgInputs :
    th = [ThreadOff EXCEPT !.pc = "calloc", !.name = n, !.arg = a]

\* a read or write of *ts: after free(ts) it is a use after free
Touch(s) == [s EXCEPT !.uaf = (@ \/ s.heap = "freed")]

\* struct thread_state *ts = calloc(1, sizeof(struct thread_state))
TCalloc ==
  /\ th.pc = "calloc"
  /\ th' = [th EXCEPT !.heap = "allocated", !.mem = Calloc, !.pc = "prefix"]
  /\ UNCHANGED thRest

\* strncpy(ts->name, "tvh:", 4)
TPrefix ==
  /\ th.pc = "prefix"
  /\ th' = [Touch(th) EXCEPT !.mem = Strncpy(@, 0, Prefix, PrefixLen),
                             !.pc = "copy"]
  /\ UNCHANGED thRest

\* strncpy(ts->name+4, name, sizeof(ts->name)-4)
TCopy ==
  /\ th.pc = "copy"
  /\ th' = [Touch(th) EXCEPT
              !.mem = Strncpy(@, PrefixLen, th.name, CopyLen(NameSize)),
              !.pc = "term"]
  /\ UNCHANGED thRest

\* ts->name[sizeof(ts->name)-1] = '\0'
TTerm ==
  /\ th.pc = "term"
  /\ th' = [Touch(th) EXCEPT !.mem[NameSize - 1] = NUL, !.pc = "fields"]
  /\ UNCHANGED thRest

\* ts->run = start_routine; ts->arg = arg
TFields ==
  /\ th.pc = "fields"
  /\ th' = [Touch(th) EXCEPT !.run = "start_routine", !.tsarg = th.arg,
                             !.pc = "create"]
  /\ UNCHANGED thRest

\* r = pthread_create(thread, attr, thread_wrapper, ts) returns 0: the new
\* thread starts in thread_wrapper
TCreateOk ==
  /\ th.pc = "create"
  /\ th' = [th EXCEPT !.r = 0, !.wpc = "setup", !.pc = "ret"]
  /\ UNCHANGED thRest

\* pthread_create fails: no thread is started
TCreateFail ==
  /\ th.pc = "create"
  /\ th' = [th EXCEPT !.r = EAGAIN, !.pc = "ret"]
  /\ UNCHANGED thRest

\* return r
TReturn ==
  /\ th.pc = "ret"
  /\ th' = [th EXCEPT !.ret = th.r, !.pc = "done"]
  /\ UNCHANGED thRest

\* thread_wrapper: the thread is named ts->name, SIGTERM and SIGQUIT are
\* unblocked and their handlers installed
WSetup ==
  /\ th.wpc = "setup"
  /\ th' = [Touch(th) EXCEPT !.label = CStr(th.mem), !.wpc = "run"]
  /\ UNCHANGED thRest

\* void *r = ts->run(ts->arg)
WRun ==
  /\ th.wpc = "run"
  /\ th' = [Touch(th) EXCEPT !.exit = EntryResult(th.tsarg), !.wpc = "free"]
  /\ UNCHANGED thRest

\* free(ts)
WFree ==
  /\ th.wpc = "free"
  /\ th' = [th EXCEPT !.heap = "freed", !.freed = Append(@, "thread"),
                      !.wpc = "exit"]
  /\ UNCHANGED thRest

\* return r
WExit ==
  /\ th.wpc = "exit"
  /\ th' = [th EXCEPT !.wpc = "exited"]
  /\ UNCHANGED thRest

NextThread ==
  \/ TCalloc
  \/ TPrefix
  \/ TCopy
  \/ TTerm
  \/ TFields
  \/ TCreateOk
  \/ TCreateFail
  \/ TReturn
  \/ WSetup
  \/ WRun
  \/ WFree
  \/ WExit

\* ------------------------------------------------------------------------
\* tvh_cond_init, tvh_cond_signal, tvh_cond_wait, tvh_cond_timedwait
\* ------------------------------------------------------------------------
\* waits started, calls of tvh_cond_signal, spurious wakeups
MaxWaits == 2
MaxSignals == 2
MaxSpurious == 1

\* threads that wait on the condition variable
Waiters == {1, 2}

\* 1000000000ULL
Billion == 1000000000

\* deadlines passed to tvh_cond_timedwait: now, below, at and above a second
MonoInputs == {0, MONOCLOCK_RESOLUTION - 1, MONOCLOCK_RESOLUTION,
               2 * MONOCLOCK_RESOLUTION + 1}
\* values of the argument broadcast
BroadcastInputs == {0, 1}
\* clock readings just before and at the deadlines in ds
TickValues(ds) ==
  {n \in {d * (Billion \div MONOCLOCK_RESOLUTION) - e :
            d \in ds, e \in {0, 1}} : n >= 0}

\* ts.tv_sec = monoclock / MONOCLOCK_RESOLUTION;
\* ts.tv_nsec = (monoclock % MONOCLOCK_RESOLUTION) *
\*              (1000000000ULL/MONOCLOCK_RESOLUTION)
CondTimespecUnscaled(m) ==
  [tv_sec |-> m \div MONOCLOCK_RESOLUTION,
   tv_nsec |-> m % MONOCLOCK_RESOLUTION]
CondTimespec(m) ==
  [tv_sec |-> m \div MONOCLOCK_RESOLUTION,
   tv_nsec |-> (m % MONOCLOCK_RESOLUTION) *
               (Billion \div MONOCLOCK_RESOLUTION)]

\* if (r) { fprintf(...); abort(); }
AfterSetclockIgnore(r) == "init"
AfterSetclock(r) == IF r # 0 THEN "aborted" ELSE "init"

\* if (broadcast) pthread_cond_broadcast else pthread_cond_signal: the
\* sets of waiters the call can wake, all of them or one of them
WakeSetsSwapped(broadcast, waiting) ==
  IF waiting = {} THEN {{}}
  ELSE IF broadcast # 0 THEN {{w} : w \in waiting} ELSE {waiting}
WakeSets(broadcast, waiting) ==
  IF waiting = {} THEN {{}}
  ELSE IF broadcast # 0 THEN {waiting} ELSE {{w} : w \in waiting}

NoTs == [tv_sec |-> 0, tv_nsec |-> 0]
NoSignal == [broadcast |-> 0, waiting |-> {}, woken |-> {}]

\* a thread that is not in a wait
WaiterOff ==
  [pc |-> "idle",    \* position of the thread
   timed |-> FALSE,  \* whether it is in tvh_cond_timedwait
   mono |-> 0,       \* its argument monoclock
   ts |-> NoTs,      \* ts
   ret |-> 0,        \* value its wait returned
   cause |-> "none", \* what ended its wait
   start |-> 0,      \* number of signals made before its wait started
   tout |-> 0]       \* clock when its wait timed out

\* the condition variable functions not running
CondOff ==
  [pc |-> "off",         \* position in tvh_cond_init
   attr |-> "none",      \* clock of the pthread_condattr_t attr
   r |-> 0,              \* r, the result of pthread_condattr_setclock
   initret |-> 0,        \* value tvh_cond_init returned
   clockid |-> "none",   \* clock of the initialised condition variable
   now |-> 0,            \* CLOCK_MONOTONIC, nanoseconds
   holders |-> {},       \* threads holding the mutex
   waiting |-> {},       \* threads blocked on the condition variable
   nsig |-> 0,           \* tvh_cond_signal calls made so far
   last |-> NoSignal,    \* the last of them: argument, waiters, woken
   waits |-> 0,          \* waits started so far
   spur |-> 0,           \* spurious wakeups so far
   w |-> [t \in Waiters |-> WaiterOff]]  \* the waiting threads

CondIdle == cv = CondOff

\* tvh_cond_init(cond) is called; the other threads use cond afterwards
InitCond == cv = [CondOff EXCEPT !.pc = "attr"]

\* pthread_condattr_init(&attr): the default clock is the wall clock
CAttrInit ==
  /\ cv.pc = "attr"
  /\ cv' = [cv EXCEPT !.attr = "realtime", !.pc = "setclock"]
  /\ UNCHANGED cvRest

\* r = pthread_condattr_setclock(&attr, CLOCK_MONOTONIC) succeeds
CSetclockOk ==
  /\ cv.pc = "setclock"
  /\ cv' = [cv EXCEPT !.attr = "monotonic", !.r = 0, !.pc = "check"]
  /\ UNCHANGED cvRest

\* pthread_condattr_setclock fails: attr keeps its clock
CSetclockFail ==
  /\ cv.pc = "setclock"
  /\ cv' = [cv EXCEPT !.r = EINVAL, !.pc = "check"]
  /\ UNCHANGED cvRest

\* if (r) { ...; abort(); }
CCheck ==
  /\ cv.pc = "check"
  /\ cv' = [cv EXCEPT !.pc = AfterSetclock(cv.r)]
  /\ UNCHANGED cvRest

\* return pthread_cond_init(&cond->cond, &attr), which succeeds: the
\* condition variable has the clock of attr
CCondInitOk ==
  /\ cv.pc = "init"
  /\ cv' = [cv EXCEPT !.clockid = cv.attr, !.initret = 0, !.pc = "done"]
  /\ UNCHANGED cvRest

\* return pthread_cond_init(&cond->cond, &attr), which fails
CCondInitFail ==
  /\ cv.pc = "init"
  /\ cv' = [cv EXCEPT !.initret = EAGAIN, !.pc = "failed"]
  /\ UNCHANGED cvRest

\* cond can be used once tvh_cond_init has returned 0
CondReady == cv.pc = "done" /\ cv.initret = 0

\* a thread locks the mutex before it waits
KLock(t) ==
  /\ CondReady
  /\ cv.w[t].pc = "idle"
  /\ cv.waits < MaxWaits
  /\ cv.holders = {}
  /\ cv' = [cv EXCEPT !.holders = @ \cup {t}, !.w[t].pc = "locked"]
  /\ UNCHANGED cvRest

\* tvh_cond_wait(cond, mutex): pthread_cond_wait releases the mutex and
\* blocks the thread
KWait(t) ==
  /\ cv.w[t].pc = "locked"
  /\ cv' = [cv EXCEPT !.holders = @ \ {t},
                      !.waiting = @ \cup {t},
                      !.waits = @ + 1,
                      !.w[t].pc = "blocked",
                      !.w[t].timed = FALSE,
                      !.w[t].start = cv.nsig]
  /\ UNCHANGED cvRest

\* tvh_cond_timedwait(cond, mutex, monoclock): ts is computed and
\* pthread_cond_timedwait releases the mutex and blocks the thread
KTimedWait(t, m) ==
  /\ cv.w[t].pc = "locked"
  /\ cv' = [cv EXCEPT !.holders = @ \ {t},
                      !.waiting = @ \cup {t},
                      !.waits = @ + 1,
                      !.w[t].pc = "blocked",
                      !.w[t].timed = TRUE,
                      !.w[t].mono = m,
                      !.w[t].ts = CondTimespec(m),
                      !.w[t].start = cv.nsig]
  /\ UNCHANGED cvRest

\* tvh_cond_signal(cond, broadcast), called by another thread
Signal(b) ==
  /\ CondReady
  /\ cv.nsig < MaxSignals
  /\ \E woken \in WakeSets(b, cv.waiting) :
       cv' = [cv EXCEPT
                !.waiting = @ \ woken,
                !.last = [broadcast |-> b, waiting |-> cv.waiting,
                          woken |-> woken],
                !.nsig = @ + 1,
                !.w = [t \in Waiters |->
                         IF t \in woken
                           THEN [cv.w[t] EXCEPT !.pc = "woken",
                                                !.cause = "signal"]
                           ELSE cv.w[t]]]
  /\ UNCHANGED cvRest

\* a blocked thread wakes up without a signal, as pthread_cond_wait may
KSpurious(t) ==
  /\ cv.w[t].pc = "blocked"
  /\ cv.spur < MaxSpurious
  /\ cv' = [cv EXCEPT !.spur = @ + 1,
                      !.waiting = @ \ {t},
                      !.w[t].pc = "woken",
                      !.w[t].cause = "spurious"]
  /\ UNCHANGED cvRest

\* pthread_cond_timedwait: the clock of the condition variable has reached
\* the time in ts
KTimeout(t) ==
  /\ cv.w[t].pc = "blocked"
  /\ cv.w[t].timed
  /\ cv.clockid = "monotonic"
  /\ cv.now >= TsNs(cv.w[t].ts)
  /\ cv' = [cv EXCEPT !.waiting = @ \ {t},
                      !.w[t].pc = "woken",
                      !.w[t].cause = "timeout",
                      !.w[t].tout = cv.now]
  /\ UNCHANGED cvRest

\* pthread_cond_wait / pthread_cond_timedwait lock the mutex again and
\* return, 0 or ETIMEDOUT
KReacquire(t) ==
  /\ cv.w[t].pc = "woken"
  /\ cv.holders = {}
  /\ cv' = [cv EXCEPT
              !.holders = @ \cup {t},
              !.w[t].ret = IF cv.w[t].cause = "timeout" THEN ETIMEDOUT ELSE 0,
              !.w[t].pc = "ret"]
  /\ UNCHANGED cvRest

\* the thread unlocks the mutex after its wait
KUnlock(t) ==
  /\ cv.w[t].pc = "ret"
  /\ cv' = [cv EXCEPT !.holders = @ \ {t}, !.w[t] = WaiterOff]
  /\ UNCHANGED cvRest

\* the monotonic clock moves on, towards the deadline of a thread blocked
\* in tvh_cond_timedwait
CTick ==
  /\ CondReady
  /\ \E n \in TickValues({cv.w[t].mono :
                            t \in {u \in cv.waiting : cv.w[u].timed}}) :
       /\ n > cv.now
       /\ cv' = [cv EXCEPT !.now = n]
  /\ UNCHANGED cvRest

NextCond ==
  \/ CAttrInit
  \/ CSetclockOk
  \/ CSetclockFail
  \/ CCheck
  \/ CCondInitOk
  \/ CCondInitFail
  \/ \E t \in Waiters : KLock(t)
  \/ \E t \in Waiters : KWait(t)
  \/ \E t \in Waiters, m \in MonoInputs : KTimedWait(t, m)
  \/ \E b \in BroadcastInputs : Signal(b)
  \/ \E t \in Waiters : KSpurious(t)
  \/ \E t \in Waiters : KTimeout(t)
  \/ \E t \in Waiters : KReacquire(t)
  \/ \E t \in Waiters : KUnlock(t)
  \/ CTick

\* ------------------------------------------------------------------------
\* tvh_qsort_r and the qsort_r fallback
\* ------------------------------------------------------------------------
\* depth to which comparators start sorts of their own
MaxNest == 1

\* threads that sort
Sorters == {1, 2}
\* native: qsort_r(base, nmemb, size, compar, arg) of the C library;
\* adapter: qsort_r(base, nmemb, size, &swap_arg, tvh_qsort_swap);
\* tls: the qsort_r defined in wrappers.c when ENABLE_QSORT_R is off
Paths == {"native", "adapter", "tls"}
\* comparators: ascending, descending, and an ascending one that sorts an
\* array of its own with tvh_qsort_r when it is first called
Comparators == {"asc", "desc", "nest"}
ArrayInputs == {<<5, 3, 1, 4, 2>>, <<2, 1>>}
\* the array a nesting comparator sorts, and the arg it passes
InnerArray == <<1, 2>>
InnerArg(arg) == arg + 10

NoData == [cmp |-> "none", aux |-> 0]

\* value of compar(a, b, ctx)
CmpResult(cmp, a, b) == IF cmp = "desc" THEN b - a ELSE a - b

\* a sort in progress: an insertion sort of arr, element i being inserted
\* and now at position j; pending is the comparator that is waiting for a
\* sort of its own to return
Frame(arr, cmp, arg) ==
  [arr |-> arr, cmp |-> cmp, arg |-> arg, i |-> 2, j |-> 2, nested |-> FALSE,
   pending |-> "none"]

Finished(f) == f.i > Len(f.arr)

\* the comparator and context a comparison of the sort f ends up with:
\* qsort_r_wrap reads them from qsort_r_data; tvh_qsort_swap reads them
\* from the swap_arg of its tvh_qsort_r call; the native qsort_r passes on
\* what it was given
Effective(path, data, f) ==
  IF path = "tls" THEN [cmp |-> data.cmp, ctx |-> data.aux]
  ELSE [cmp |-> f.cmp, ctx |-> f.arg]

\* qsort_r_data.cmp = cmp; qsort_r_data.aux = aux
DataAfterCall(path, data, cmp, arg) ==
  IF path = "tls" THEN [cmp |-> cmp, aux |-> arg] ELSE data

\* qsort_r_data when qsort_r returns: as the sort left it
DataAfterReturn(path, data) == data

\* the sort after a comparison that returned r: exchange and go on
\* downwards, or take the next element
AfterCompare(f, r) ==
  IF r > 0
    THEN LET sw == [f.arr EXCEPT ![f.j - 1] = f.arr[f.j],
                                 ![f.j] = f.arr[f.j - 1]]
         IN IF f.j - 1 > 1
              THEN [f EXCEPT !.arr = sw, !.j = f.j - 1, !.pending = "none"]
              ELSE [f EXCEPT !.arr = sw, !.i = f.i + 1, !.j = f.i + 1,
                             !.pending = "none"]
    ELSE [f EXCEPT !.i = f.i + 1, !.j = f.i + 1, !.pending = "none"]

Top(st) == st[Len(st)]
SetTop(st, f) == [st EXCEPT ![Len(st)] = f]
Pop(st) == SubSeq(st, 1, Len(st) - 1)

\* the sort functions not running
SortOff ==
  [path |-> "native",  \* the build: native qsort_r, adapter, fallback
   pc |-> [t \in Sorters |-> "off"],   \* position of each sorting thread
   \* base, compar and arg each thread passes to tvh_qsort_r
   input |-> [t \in Sorters |-> [arr |-> <<>>, cmp |-> "asc", arg |-> 0]],
   data |-> [t \in Sorters |-> NoData],  \* qsort_r_data, thread-local
   stack |-> [t \in Sorters |-> <<>>],   \* running sorts, innermost last
   \* per thread: arg of a sort and the context its comparator got
   obs |-> [t \in Sorters |-> {}],
   \* the array each thread's tvh_qsort_r left behind
   result |-> [t \in Sorters |-> <<>>]]

SortIdle == qs = SortOff

\* every thread is about to call tvh_qsort_r with an array, a comparator
\* and an arg of its own
InitSort ==
  \E path \in Paths,
     in \in [Sorters -> [arr : ArrayInputs, cmp : Comparators,
                         arg : Sorters]] :
    /\ \A t \in Sorters : in[t].arg = t
    /\ qs = [SortOff EXCEPT !.path = path,
                            !.pc = [t \in Sorters |-> "call"],
                            !.input = in]

\* tvh_qsort_r(base, nmemb, size, compar, arg) up to the first comparison
QCall(t) ==
  /\ qs.pc[t] = "call"
  /\ LET in == qs.input[t]
     IN qs' = [qs EXCEPT
                 !.pc[t] = "sorting",
                 !.stack[t] = <<Frame(in.arr, in.cmp, in.arg)>>,
                 !.data[t] = DataAfterCall(qs.path, @, in.cmp, in.arg)]
  /\ UNCHANGED qsRest

\* one comparison of the innermost sort: the comparator is called; a
\* nesting comparator calls tvh_qsort_r itself before it compares
QCompare(t) ==
  /\ qs.pc[t] = "sorting"
  /\ LET st == qs.stack[t]
         f == Top(st)
         e == Effective(qs.path, qs.data[t], f)
         seen == [arg |-> f.arg, ctx |-> e.ctx]
         icmp == IF Len(st) + 1 <= MaxNest THEN "nest" ELSE "desc"
     IN /\ ~Finished(f)
        /\ f.pending = "none"
        /\ IF e.cmp = "nest" /\ ~f.nested /\ Len(st) <= MaxNest
             THEN qs' = [qs EXCEPT
                    !.obs[t] = @ \cup {seen},
                    !.stack[t] =
                       Append(SetTop(st, [f EXCEPT !.nested = TRUE,
                                                   !.pending = e.cmp]),
                              Frame(InnerArray, icmp, InnerArg(e.ctx))),
                    !.data[t] =
                       DataAfterCall(qs.path, @, icmp, InnerArg(e.ctx))]
             ELSE qs' = [qs EXCEPT
                    !.obs[t] = @ \cup {seen},
                    !.stack[t] =
                       SetTop(st, AfterCompare(f,
                          CmpResult(e.cmp, f.arr[f.j - 1], f.arr[f.j])))]
  /\ UNCHANGED qsRest

\* the sort a comparator started has returned: the comparator compares
QFinish(t) ==
  /\ qs.pc[t] = "sorting"
  /\ LET f == Top(qs.stack[t])
     IN /\ ~Finished(f)
        /\ f.pending # "none"
        /\ qs' = [qs EXCEPT !.stack[t] =
             SetTop(@, AfterCompare(f,
                CmpResult(f.pending, f.arr[f.j - 1], f.arr[f.j])))]
  /\ UNCHANGED qsRest

\* qsort and tvh_qsort_r return
QReturn(t) ==
  /\ qs.pc[t] = "sorting"
  /\ Finished(Top(qs.stack[t]))
  /\ LET st == qs.stack[t]
         outer == Len(st) = 1
     IN qs' = [qs EXCEPT
                 !.stack[t] = Pop(st),
                 !.data[t] = DataAfterReturn(qs.path, @),
                 !.result[t] = IF outer THEN Top(st).arr ELSE @,
                 !.pc[t] = IF outer THEN "done" ELSE @]
  /\ UNCHANGED qsRest

NextSort ==
  \/ \E t \in Sorters : QCall(t)
  \/ \E t \in Sorters : QCompare(t)
  \/ \E t \in Sorters : QFinish(t)
  \/ \E t \in Sorters : QReturn(t)

\* ------------------------------------------------------------------------
\* tvh_pipe_close
\* ------------------------------------------------------------------------
\* calls of tvh_pipe_close
MaxCloses == 2

\* no tvh_pipe_close call yet
CloseOff ==
  [closes |-> 0,     \* tvh_pipe_close calls made
   both |-> {},      \* threads a call of which closed both ends of a pipe
   again |-> {}]     \* of those, threads a later call of which closed nothing

CloseIdle == cl = CloseOff

\* close(f): an open descriptor is closed, close(-1) closes nothing
CloseFd(open, f) == open \ {f}

\* p->rd = -1; p->wr = -1
ClosedHandleRdOnly(h) == <<-1, h[2]>>
ClosedHandle(h) == <<-1, -1>>

\* tvh_pipe_close(p): close(p->rd); close(p->wr); p->rd = -1; p->wr = -1
PipeClose(t) ==
  /\ pc[t] = "idle"
  /\ cl.closes < MaxCloses
  /\ open_fds' = CloseFd(CloseFd(open_fds, p[t][1]), p[t][2])
  /\ p' = [p EXCEPT ![t] = ClosedHandle(@)]
  /\ LET gone == {p[t][1], p[t][2]} \cap open_fds
     IN cl' = [cl EXCEPT
                 !.closes = @ + 1,
                 !.both = IF Cardinality(gone) = 2 THEN @ \cup {t} ELSE @,
                 !.again = IF gone = {} /\ t \in cl.both
                             THEN @ \cup {t} ELSE @]
  /\ UNCHANGED <<fork_lock, fdflags, flflags, pc, op, fd, err, ret, pflags,
                 calls, touched, fpc, forks, inherited>>
  /\ UNCHANGED clRest

\* the descriptor wrappers together with tvh_pipe_close
NextPipe ==
  \/ \E t \in Callers : CallerStep(t)
  \/ ForkerStep
  \/ \E t \in Callers : PipeClose(t)

\* ------------------------------------------------------------------------
\* Specifications
\* ------------------------------------------------------------------------
\* the threads of the descriptor wrappers start; nothing else runs
RestIdle == MutexIdle /\ ThreadIdle /\ CondIdle /\ SortIdle /\ CloseIdle
StartFd == InitFd /\ WriteIdle /\ SleepIdle /\ RestIdle
\* one call of tvh_write
StartWrite == InitFd /\ InitWrite /\ SleepIdle /\ RestIdle
\* one call of a sleep function
StartSleep == InitFd /\ WriteIdle /\ InitSleep /\ RestIdle
\* one call of tvh_mutex_timedlock
OldIdle == InitFd /\ WriteIdle /\ SleepIdle /\ CloseIdle
StartMutex == OldIdle /\ InitMutex /\ ThreadIdle /\ CondIdle /\ SortIdle
\* one call of tvhthread_create
StartThread == OldIdle /\ MutexIdle /\ InitThread /\ CondIdle /\ SortIdle
\* tvh_cond_init, then waits and signals on the condition variable
StartCond == OldIdle /\ MutexIdle /\ ThreadIdle /\ InitCond /\ SortIdle
\* every sorting thread calls tvh_qsort_r once
StartSort == OldIdle /\ MutexIdle /\ ThreadIdle /\ CondIdle /\ InitSort

SpecFd == StartFd /\ [][NextFd]_vars

\* the threads keep running: the process does not stop while some thread
\* can take a step
FairSpecFd == SpecFd /\ WF_vars(NextFd)

SpecWrite == StartWrite /\ [][NextWrite]_vars

SpecSleep == StartSleep /\ [][NextSleep]_vars

SpecMutex == StartMutex /\ [][NextMutex]_vars

SpecThread == StartThread /\ [][NextThread]_vars

SpecCond == StartCond /\ [][NextCond]_vars

SpecSort == StartSort /\ [][NextSort]_vars

\* the descriptor wrappers and tvh_pipe_close, from the same start
SpecPipe == StartFd /\ [][NextPipe]_vars

\* ------------------------------------------------------------------------
\* Properties of the descriptor wrappers (SpecFd, FairSpecFd)
\* ------------------------------------------------------------------------
HasCloexec(f) == "FD_CLOEXEC" \in fdflags[f]

\* descriptors a successful call hands to its caller
Returned(t) == IF op[t] = "pipe" THEN {p[t][1], p[t][2]} ELSE {fd[t][1]}

\* C1: no fork happens while a descriptor made by tvh_open, tvh_socket,
\* tvh_pipe or tvh_fopen lacks close-on-exec: whenever fork_lock is free
\* every open descriptor has close-on-exec set, no child ever inherited a
\* descriptor without it, and every descriptor a successful call returned
\* (both ends of a pipe) has it set.
C1_CloexecBeforeFork ==
  /\ fork_lock = 0 => \A f \in open_fds : HasCloexec(f)
  /\ fpc = "fork" => \A f \in open_fds : HasCloexec(f)
  /\ inherited = {}
  /\ \A t \in Callers :
       pc[t] = "ret" /\ err[t] # -1 =>
         \A f \in Returned(t) : f \in open_fds /\ HasCloexec(f)

\* a fork was made while descriptors of a successful tvh_pipe were open and
\* another wrapper call was waiting for fork_lock
C1_Witness ==
  /\ fpc = "unlock"
  /\ forks = 1
  /\ \E t \in Callers : p[t] # <<-1, -1>> /\ p[t][2] \in open_fds
  /\ \E t \in Callers : pc[t] = "lock"

\* the value a failed call must return: NULL (0) for tvh_fopen, else -1
FailValue(o) == IF o = "fopen" THEN 0 ELSE -1

\* what holds of every call that has returned
ReleasedOnReturn ==
  \A t \in Callers :
    /\ pc[t] \in {"idle", "ret"} => fork_lock # t
    /\ pc[t] = "ret" /\ err[t] = -1 =>
         /\ ret[t] = FailValue(op[t])
         /\ fd[t] = <<-1, -1>>
         /\ touched[t] = {}

\* C2: every call releases fork_lock before it returns, on success and on
\* failure: a thread that has returned does not hold it, and a caller waiting
\* for it eventually acquires it; a call whose creation fails returns -1
\* (NULL for tvh_fopen), has created no descriptor and has set no flags.
C2_LockReleased ==
  /\ []ReleasedOnReturn
  /\ \A t \in Callers : (pc[t] = "lock") ~> (fork_lock = t)

\* a call whose creation failed has returned, and another thread now holds
\* fork_lock
C2_Witness ==
  \E t \in Callers, u \in Callers :
    /\ pc[t] = "ret"
    /\ err[t] = -1
    /\ op[t] = "pipe"
    /\ u # t
    /\ fork_lock = u

\* ------------------------------------------------------------------------
\* Properties of tvh_write (SpecWrite)
\* ------------------------------------------------------------------------
\* bytes the caller asked tvh_write to write
Len0 == Len(w_data)
Accepted == Len(dest)
Returning == w_pc \in {"return", "done"}
Range(q) == {q[i] : i \in DOMAIN q}
\* write calls that failed with a retryable error
Retried == Cardinality({i \in DOMAIN outs : outs[i] < 0 /\ ERRNO_AGAIN(-outs[i])})

\* C3 as the spec states it: the result is the number of bytes not written,
\* len minus the bytes the destination accepted.
C3_ResultIsRemainder ==
  w_pc = "done" => w_ret = Len0 - Accepted

\* C3 as the code has it: the result is 0 exactly when all len bytes were
\* written and 1 otherwise, whatever the write calls did; the bytes still
\* unwritten are len minus the bytes accepted.
C3_ResultIsFlag ==
  w_pc = "done" =>
    /\ w_ret \in {0, 1}
    /\ w_ret = 0 <=> Accepted = Len0
    /\ w_ret = 1 <=> Accepted < Len0
    /\ w_len = Len0 - Accepted

\* tvh_write has returned with at least two bytes unwritten after a partial
\* write and a non-retryable error
C3_Witness ==
  /\ w_pc = "done"
  /\ Accepted = 1
  /\ w_len = 2
  /\ outs = <<1, -EPIPE>>

\* C4: at every point of the loop the bytes accepted plus the remaining
\* length is len, the destination holds the first bytes of the buffer in
\* order, and the next attempt starts at the first byte not yet accepted;
\* when every write call accepts at least one byte, tvh_write returns 0 and
\* the destination holds exactly the len bytes of the buffer.
C4_InOrderNoGaps ==
  /\ w_pc # "off" =>
       /\ Accepted + w_len = Len0
       /\ w_buf = Accepted
       /\ dest = SubSeq(w_data, 1, Accepted)
  /\ (w_pc = "done" /\ \A i \in DOMAIN outs : outs[i] > 0) =>
       w_ret = 0 /\ dest = w_data

\* three bytes went out in partial writes of one and two bytes
C4_Witness ==
  /\ w_pc = "done"
  /\ outs = <<1, 2>>
  /\ dest = <<1, 2, 3>>
  /\ w_ret = 0

\* every write call so far failed with a retryable error
OnlyRetryable ==
  /\ w_len > 0
  /\ \A i \in DOMAIN outs : outs[i] < 0 /\ ERRNO_AGAIN(-outs[i])

\* C5: against a sink that fails every write with a retryable error,
\* tvh_write checks the deadline after each attempt, sleeps 100 microseconds
\* and retries whenever the clock read is not past limit = entry + 25 s, and
\* returns non-zero at the first check that reads a clock past limit, with
\* no write attempt after that check.
C5_RetryUntilDeadline ==
  OnlyRetryable =>
    /\ w_pc = "sleep" =>
         w_tcheck <= w_limit /\ w_checks = Len(outs)
    /\ (w_pc = "write" /\ outs # <<>>) =>
         /\ w_tcheck <= w_limit
         /\ w_checks = Len(outs)
         /\ Len(w_sleeps) = Len(outs)
    /\ Returning =>
         /\ w_tcheck > w_limit
         /\ w_checks = Len(outs)
         /\ Len(w_sleeps) = Len(outs) - 1
    /\ w_pc = "done" => w_ret # 0
    /\ Range(w_sleeps) \subseteq {100}
    /\ w_pc # "entry" /\ w_pc # "off" => w_limit = w_t0 + 25000000

\* the sink refused three times; the second check read the clock exactly at
\* the deadline and retried, the third read it past the deadline
C5_Witness ==
  /\ w_pc = "done"
  /\ OnlyRetryable
  /\ Len(outs) = 3
  /\ w_ret = 1
  /\ w_tcheck > w_limit
  /\ w_tattempt = w_limit + 100

\* C6: a write call that fails with a non-retryable error is the last thing
\* tvh_write does: no deadline check, no sleep and no write attempt follows,
\* and the result is non-zero, however far the deadline is and however many
\* bytes went out before.
C6_HardErrorStops ==
  (outs # <<>> /\ outs[Len(outs)] < 0 /\ ~ERRNO_AGAIN(-outs[Len(outs)])) =>
    /\ Returning
    /\ w_checks = Retried
    /\ Len(w_sleeps) = Retried
    /\ w_len > 0
    /\ w_pc = "done" => w_ret # 0

\* a partial write, a retry and then EPIPE long before the deadline
C6_Witness ==
  /\ w_pc = "done"
  /\ outs = <<1, -EAGAIN, -EPIPE>>
  /\ now < w_limit
  /\ w_ret = 1

\* C7: tvh_write is bounded by its deadline: once a write attempt made
\* after the deadline has accepted no byte (zero bytes, or an error),
\* tvh_write makes no further attempt and returns.
C7_BoundedByDeadline ==
  (outs # <<>> /\ outs[Len(outs)] <= 0 /\ w_tattempt > w_limit) =>
    w_pc # "write"

\* ------------------------------------------------------------------------
\* Properties of the sleep functions (SpecSleep)
\* ------------------------------------------------------------------------
\* tvh_usleep or tvh_usleep_abs has computed its result
UsleepReturned == s_pc \in {"u_done", "done"} /\ s_fn # "safe_usleep"

\* v microseconds is the duration n nanoseconds, to the microsecond
SameUs(v, n) == v * 1000 - n < 1000 /\ n - v * 1000 < 1000

\* the three outcomes of a single sleep towards a point s_remNs away when
\* it was interrupted
ThreeOutcomes ==
  /\ u_r = 0 => u_ret = 0
  /\ u_r = EINTR => u_ret > 0 /\ SameUs(u_ret, s_remNs)
  /\ u_r \notin {0, EINTR} => u_ret < 0 /\ u_ret = -u_r

\* C8: tvh_usleep(us) with us > 0 returns 0 when the sleep completed, a
\* strictly positive value, the unslept remainder in microseconds, when it
\* was interrupted, and a negative error code when it failed otherwise; with
\* us <= 0 it returns 0 at once without sleeping.
C8_UsleepOutcomes ==
  (UsleepReturned /\ s_fn = "usleep") =>
    IF u_us > 0
      THEN ThreeOutcomes
      ELSE u_ret = 0 /\ s_calls = 0 /\ nowNs = s_t0

\* C9: tvh_usleep_abs(deadline) interrupted at a time t before the deadline
\* returns the unslept remainder deadline - t in microseconds, not the
\* deadline; it returns 0 when the sleep completed and a negative error code
\* on other errors.
C9_AbsReturnsRemainder ==
  (UsleepReturned /\ s_fn = "usleep_abs" /\ u_us > 0) => ThreeOutcomes

\* C10: tvh_safe_usleep(us) with us > 0, interrupted any number of times
\* and with no other error, returns only when at least us microseconds have
\* passed on the monotonic clock since the call.
C10_SleepsAtLeast ==
  (s_fn = "safe_usleep" /\ s_pc = "done" /\ s_arg > 0 /\ ~s_hard) =>
    nowNs - s_t0 >= s_arg * 1000

\* ------------------------------------------------------------------------
\* tvh_mutex_timedlock
\* ------------------------------------------------------------------------
TimedLockReturned == mx.pc = "done"
Polls == Len(mx.seen)

\* C11: tvh_mutex_timedlock computes the deadline as the clock on entry plus
\* usec and polls the mutex on entry and then once every 10 ms.  A mutex
\* that is free at the first poll is acquired there, without sleeping.  The
\* call returns ETIMEDOUT never before the deadline and no later than the
\* deadline plus one polling interval, and a poll that finds the mutex free
\* acquires it at that moment, so a mutex released before the deadline is
\* acquired within one interval of a poll at which it is free.
C11_TimedLockTiming ==
  /\ mx.pc \notin {"off", "entry"} => mx.finish = mx.t0 + mx.usec
  /\ \A i \in 1..Polls : mx.tpolls[i] = mx.t0 + (i - 1) * PollUs
  /\ \A i \in 1..Len(mx.sleeps) : mx.sleeps[i] = PollUs
  /\ \A i \in 1..Polls :
       (mx.held[i] = 0 /\ mx.seen[i] \in {0, EBUSY}) =>
         /\ mx.seen[i] = 0
         /\ i = Polls
         /\ TimedLockReturned
         /\ mx.ret = 0
         /\ mx.tret = mx.tpolls[i]
         /\ Len(mx.sleeps) = i - 1
  /\ \A i \in 1..Polls :
       (i < Polls \/ mx.pc = "sleep") => mx.tpolls[i] < mx.finish
  /\ (TimedLockReturned /\ mx.ret = ETIMEDOUT) =>
       /\ mx.tret >= mx.finish
       /\ mx.tret <= mx.finish + PollUs

\* a call that met a held mutex, slept, and timed out after the deadline
C11_Witness ==
  /\ TimedLockReturned
  /\ mx.ret = ETIMEDOUT
  /\ Len(mx.sleeps) >= 1
  /\ mx.tret > mx.finish

\* C18: tvh_mutex_timedlock returns 0 exactly when the caller acquired the
\* mutex and holds it on return.  When it returns ETIMEDOUT the caller does
\* not hold the mutex, the call has not changed the holder, and the last
\* try-acquire failed with EBUSY and was followed by a clock reading at or
\* after the deadline.  Any other try-acquire failure is returned at once as
\* that error, without a sleep after it, and never as ETIMEDOUT.
C18_TimedLockResult ==
  /\ [](TimedLockReturned =>
          /\ (mx.ret = 0) <=> (mx.owner = 1)
          /\ (mx.ret = 0) => (mx.seen[Polls] = 0 /\ mx.held[Polls] = 0)
          /\ (mx.ret = ETIMEDOUT) =>
               /\ mx.owner # 1
               /\ mx.seen[Polls] = EBUSY
               /\ mx.held[Polls] = 2
               /\ mx.tcheck >= mx.finish
               /\ mx.tcheck = mx.tret
          /\ \A i \in 1..Polls :
               mx.seen[i] \notin {0, EBUSY} =>
                 /\ i = Polls
                 /\ mx.ret = mx.seen[i]
                 /\ mx.ret # ETIMEDOUT
                 /\ Len(mx.sleeps) = i - 1
                 /\ mx.tret = mx.tpolls[i])
  /\ [][(mx'.pc = "done" /\ mx'.ret # 0) => mx'.owner = mx.owner]_vars

\* a call that returned another error of the try-acquire after a sleep
C18_Witness ==
  /\ TimedLockReturned
  /\ mx.ret = EINVAL
  /\ Polls >= 2
  /\ mx.owner = 2

\* ------------------------------------------------------------------------
\* tvhthread_create and thread_wrapper
\* ------------------------------------------------------------------------
CreateReturned == th.pc = "done"
Min(a, b) == IF a < b THEN a ELSE b

\* C12: the thread_state allocated by tvhthread_create is freed exactly
\* once and never used after it was freed.  When pthread_create succeeds it
\* is freed by the new thread, after the entry function has returned, and
\* never by the creator; when pthread_create fails the error is returned
\* unchanged and the creator has freed the thread_state by the time it
\* returns, so it is neither leaked nor freed twice.
C12_DescriptorFreedOnce ==
  /\ Len(th.freed) <= 1
  /\ ~th.uaf
  /\ (th.heap = "freed") <=> (Len(th.freed) = 1)
  /\ CreateReturned => th.ret = th.r
  /\ (th.r = 0 /\ th.heap = "freed") =>
       (th.freed = <<"thread">> /\ th.wpc \in {"exit", "exited"})
  /\ (th.r = 0 /\ th.wpc = "exited") => th.heap = "freed"
  /\ (CreateReturned /\ th.ret # 0) =>
       (th.wpc = "none" /\ th.heap = "freed" /\ th.freed = <<"creator">>)

\* C13: the label built by tvhthread_create is "tvh:" followed by the first
\* min(length, 12) characters of the name, it is null-terminated inside the
\* 17-byte buffer, no byte outside the buffer is written, and a name of at
\* most 12 characters is preserved exactly after the prefix; the new thread
\* is given that label.
C13_LabelTruncated ==
  /\ \A i \in MemSpace : i >= NameSize => th.mem[i] = Canary
  /\ th.pc \in {"fields", "create", "ret", "done"} =>
       /\ th.mem[NameSize - 1] = NUL
       /\ CStrLen(th.mem) < NameSize
       /\ CStr(th.mem) =
            Prefix \o SubSeq(th.name, 1,
                             Min(Len(th.name), NameSize - PrefixLen - 1))
       /\ Len(th.name) <= NameSize - PrefixLen - 1 =>
            CStr(th.mem) = Prefix \o th.name
  /\ th.wpc \in {"run", "free", "exit", "exited"} =>
       th.label =
         Prefix \o SubSeq(th.name, 1,
                          Min(Len(th.name), NameSize - PrefixLen - 1))

\* a name longer than 12 characters was cut and given to the new thread
C13_Witness ==
  /\ Len(th.name) > NameSize - PrefixLen - 1
  /\ th.wpc = "run"
  /\ Len(th.label) = NameSize - 1

\* ------------------------------------------------------------------------
\* tvh_cond_init, tvh_cond_signal, tvh_cond_wait, tvh_cond_timedwait
\* ------------------------------------------------------------------------
\* C14: tvh_cond_init never returns a condition variable that measures
\* timed waits against the wall clock: when pthread_condattr_setclock fails
\* the process aborts and tvh_cond_init does not return, and whenever
\* tvh_cond_init has returned 0 the condition variable uses the monotonic
\* clock.
C14_MonotonicOrAbort ==
  /\ cv.clockid \in {"none", "monotonic"}
  /\ (cv.pc \in {"check", "aborted"} /\ cv.r # 0) =>
       (cv.clockid = "none" /\ cv.initret = 0)
  /\ (cv.pc \in {"init", "done", "failed"}) => (cv.r = 0 /\ cv.attr = "monotonic")
  /\ CondReady => cv.clockid = "monotonic"
  /\ (\E t \in Waiters : cv.w[t].pc # "idle") => cv.clockid = "monotonic"

\* a thread timed out on a condition variable tvh_cond_init returned
C14_Witness ==
  /\ CondReady
  /\ \E t \in Waiters : cv.w[t].pc = "ret" /\ cv.w[t].ret = ETIMEDOUT

\* C15: tvh_cond_signal with broadcast = 0 wakes one of the threads blocked
\* on the condition variable and with broadcast # 0 wakes all of them; a
\* woken thread returns from its wait only once it holds the mutex again,
\* and at most one thread holds the mutex at any time; a signal made while
\* no thread waits wakes nobody, and a thread woken by a signal was woken
\* by one made after its wait started.
C15_SignalWakes ==
  /\ cv.last.woken \subseteq cv.last.waiting
  /\ (cv.last.broadcast = 0 /\ cv.last.waiting # {}) =>
       Cardinality(cv.last.woken) = 1
  /\ cv.last.broadcast # 0 => cv.last.woken = cv.last.waiting
  /\ cv.last.waiting = {} => cv.last.woken = {}
  /\ Cardinality(cv.holders) <= 1
  /\ \A t \in Waiters :
       /\ cv.w[t].pc \in {"locked", "ret"} <=> t \in cv.holders
       /\ cv.w[t].pc = "blocked" <=> t \in cv.waiting
       /\ cv.w[t].cause = "signal" => cv.nsig > cv.w[t].start
       /\ (cv.w[t].pc \in {"woken", "ret"} /\ cv.nsig = cv.w[t].start) =>
            cv.w[t].cause \in {"spurious", "timeout"}

\* a broadcast found two threads waiting and one of them has returned
C15_Witness ==
  /\ cv.last.broadcast # 0
  /\ Cardinality(cv.last.waiting) >= 2
  /\ \E t \in cv.last.woken : cv.w[t].pc = "ret" /\ cv.w[t].cause = "signal"

\* C20: for every deadline monoclock >= 0 the timespec tvh_cond_timedwait
\* passes on has 0 <= tv_nsec < 1000000000 and converts back to monoclock
\* exactly; the wait times out when the monotonic clock has reached the
\* deadline and not before, a timed wait that was neither signalled nor
\* woken spuriously returns ETIMEDOUT, and every return holds the mutex.
C20_DeadlineLossless ==
  \A t \in Waiters :
    /\ (cv.w[t].timed /\ cv.w[t].pc # "idle") =>
         /\ cv.w[t].mono >= 0
         /\ 0 <= cv.w[t].ts.tv_nsec
         /\ cv.w[t].ts.tv_nsec < Billion
         /\ cv.w[t].ts.tv_sec * MONOCLOCK_RESOLUTION +
              cv.w[t].ts.tv_nsec \div (Billion \div MONOCLOCK_RESOLUTION)
              = cv.w[t].mono
    /\ (cv.w[t].timed /\ cv.w[t].pc = "blocked") =>
         (ENABLED KTimeout(t) <=>
            cv.now >= cv.w[t].mono * (Billion \div MONOCLOCK_RESOLUTION))
    /\ cv.w[t].cause = "timeout" =>
         /\ cv.w[t].timed
         /\ cv.w[t].tout >= cv.w[t].mono * (Billion \div MONOCLOCK_RESOLUTION)
    /\ cv.w[t].pc = "ret" =>
         /\ t \in cv.holders
         /\ cv.w[t].ret = ETIMEDOUT <=> cv.w[t].cause = "timeout"
         /\ cv.w[t].ret = 0 <=> cv.w[t].cause \in {"signal", "spurious"}

\* a wait with a deadline above one second timed out with no signal made
C20_Witness ==
  \E t \in Waiters :
    /\ cv.w[t].pc = "ret"
    /\ cv.w[t].ret = ETIMEDOUT
    /\ cv.w[t].mono > MONOCLOCK_RESOLUTION
    /\ cv.nsig = 0

\* ------------------------------------------------------------------------
\* tvh_qsort_r and the qsort_r fallback
\* ------------------------------------------------------------------------
\* arr is ordered according to the comparator cmp
Sorted(arr, cmp) ==
  \A i \in 1..(Len(arr) - 1) : CmpResult(cmp, arr[i], arr[i + 1]) <= 0
\* a and b hold the same elements, each as often
IsPerm(a, b) ==
  /\ Len(a) = Len(b)
  /\ \A v \in Range(a) \cup Range(b) :
       Cardinality({i \in DOMAIN a : a[i] = v}) =
       Cardinality({i \in DOMAIN b : b[i] = v})

\* C16: on the native path, the FreeBSD/Darwin adapter path and the
\* thread-local fallback path alike, tvh_qsort_r leaves the array a
\* permutation of its elements ordered according to compar ([5,3,1,4,2]
\* becomes [1,2,3,4,5] ascending and [5,4,3,2,1] descending), and every
\* call of the comparator during a sort gets the arg of that sort as its
\* context.
C16_SortedWithContext ==
  \A t \in Sorters :
    /\ \A o \in qs.obs[t] : o.ctx = o.arg
    /\ qs.pc[t] = "done" =>
         /\ IsPerm(qs.result[t], qs.input[t].arr)
         /\ Sorted(qs.result[t], qs.input[t].cmp)
         /\ (qs.input[t].arr = <<5, 3, 1, 4, 2>> /\ qs.input[t].cmp # "desc") =>
              qs.result[t] = <<1, 2, 3, 4, 5>>
         /\ (qs.input[t].arr = <<5, 3, 1, 4, 2>> /\ qs.input[t].cmp = "desc") =>
              qs.result[t] = <<5, 4, 3, 2, 1>>

\* C17: the fallback qsort_r keeps compare and context in qsort_r_data only
\* while it runs: they are set on entry and cleared or restored before it
\* returns, so nothing is left in qsort_r_data after a sort; sorts in
\* different threads never see each other's compare and context; and a
\* sort started from inside a comparator leaves the outer sort, when it
\* returns, with the compare and context the outer sort was called with.
C17_FallbackScoped ==
  \A t \in Sorters :
    /\ qs.pc[t] \in {"call", "done"} => qs.data[t] = NoData
    /\ (qs.path = "tls" /\ qs.pc[t] = "sorting") =>
         LET f == Top(qs.stack[t])
         IN /\ qs.data[t].aux # 0 => qs.data[t].aux % 10 = t
            /\ qs.data[t] = [cmp |-> f.cmp, aux |-> f.arg]

\* ------------------------------------------------------------------------
\* tvh_pipe and tvh_pipe_close
\* ------------------------------------------------------------------------
\* both ends of the handle are open descriptors, and different ones
BothValid(h) == h[1] \in open_fds /\ h[2] \in open_fds /\ h[1] # h[2]
Sentinel == <<-1, -1>>
\* the step is a tvh_pipe_close call; the call leaves every handle as it was
\* exactly when the handle it is given is closed already
PipeClosed == cl'.closes # cl.closes

\* C19: a pipe handle starts with both ends -1, and between any calls of
\* tvh_pipe and tvh_pipe_close on it its ends are both open descriptors or
\* both -1.  Only a successful tvh_pipe and tvh_pipe_close change the
\* handle: the first sets both ends to the two new descriptors, the second
\* sets both to -1; a failed tvh_pipe leaves it as it was.  tvh_pipe_close
\* on a handle that is already closed closes no descriptor.
C19_PipeEndsTogether ==
  /\ [](\A t \in Callers :
          /\ pc[t] = "idle" => (p[t] = Sentinel \/ BothValid(p[t]))
          /\ (pc[t] = "unlock" /\ op[t] = "pipe" /\ err[t] = -1) =>
               (p[t] = Sentinel \/ BothValid(p[t]))
          /\ (pc[t] = "unlock" /\ op[t] = "pipe" /\ err[t] # -1) =>
               (p[t] = fd[t] /\ BothValid(p[t])))
  /\ [][/\ \A t \in Callers :
             p'[t] # p[t] =>
               \/ pc[t] = "assign" /\ err[t] # -1 /\ p'[t] = fd[t]
               \/ PipeClosed /\ p'[t] = Sentinel
        /\ (PipeClosed /\ p' = p) => open_fds' = open_fds
        /\ (PipeClosed /\ open_fds' # open_fds) =>
             \E t \in Callers :
               /\ BothValid(p[t]) /\ p'[t] = Sentinel
               /\ open_fds' = open_fds \ {p[t][1], p[t][2]}]_vars

\* a thread opened a pipe, closed it and called tvh_pipe_close again: one
\* of its calls closed both ends, and a later one closed nothing
C19_Witness ==
  \E t \in Callers :
    /\ pc[t] = "idle"
    /\ p[t] = Sentinel
    /\ t \in cl.again

====
